---- MODULE Spec2Model ----
(***************************************************************************)
(* cut-optimizer-2d-server: the HTTP facade over the cut optimizer.        *)
(*                                                                         *)
(* Two revisions of the server are in the tree:                            *)
(*   "warp"  src/main.rs    a warp filter chain around optimize            *)
(*   "axum"  src/server.rs  an axum route behind a tower middleware stack  *)
(*           (error normalisation, timeout, load shed, concurrency limit)  *)
(* Both hand the decoded request to a rayon worker-pool job and wait for   *)
(* its result on a tokio one-shot channel.                                 *)
(*                                                                         *)
(* The model follows NumRequests HTTP requests through one server process. *)
(* The optimization engine is an external library: its result is any       *)
(* Ok(solution) or NoFitForCutPiece(p) for a cut piece p of the input, or  *)
(* a panic.                                                                *)
(***************************************************************************)
EXTENDS Integers, Sequences, FiniteSets

(* ---------------------------- bounds ---------------------------------- *)

\* HTTP requests followed by the model.
NumRequests == 2

\* opt.max_requests: permits of the concurrency-limit semaphore.
max_requests == 1

\* Threads of the rayon worker pool.
PoolSize == 1

Requests == 1..NumRequests

(* ------------------------ program constants ---------------------------- *)

\* --max-content-length, default value
max_content_length == 32896

(* ------------------------------ data ----------------------------------- *)

CutPiece1 == [externalId |-> 1, width |-> 10, length |-> 30]
CutPiece2 == [externalId |-> 2, width |-> 45, length |-> 100]

\* Keys of a JSON request body that OptimizerInput reads.
AllKeys == {"method", "randomSeed", "cutWidth", "stockPieces", "cutPieces"}

\* Request bodies: what the JSON text holds and how many bytes it has.
BodyValid ==
    [syntax |-> TRUE, keys |-> AllKeys, method |-> "guillotine",
     randomSeed |-> 3, cutPieces |-> <<CutPiece1, CutPiece2>>, len |-> 700]
BodyNested ==
    [syntax |-> TRUE, keys |-> AllKeys \ {"randomSeed"}, method |-> "nested",
     randomSeed |-> 0, cutPieces |-> <<CutPiece2>>, len |-> 400]
BodyEmptyObject ==
    [syntax |-> TRUE, keys |-> {}, method |-> "", randomSeed |-> 0,
     cutPieces |-> <<>>, len |-> 2]
BodyNoMethod ==
    [syntax |-> TRUE, keys |-> AllKeys \ {"method"}, method |-> "",
     randomSeed |-> 3, cutPieces |-> <<CutPiece1>>, len |-> 380]
BodyMalformed ==
    [syntax |-> FALSE, keys |-> {}, method |-> "", randomSeed |-> 0,
     cutPieces |-> <<>>, len |-> 17]
BodyTooLarge ==
    [syntax |-> TRUE, keys |-> AllKeys, method |-> "guillotine",
     randomSeed |-> 3, cutPieces |-> <<CutPiece1, CutPiece2>>, len |-> 40000]

BodyTooLargeMalformed ==
    [syntax |-> FALSE, keys |-> {}, method |-> "", randomSeed |-> 0,
     cutPieces |-> <<>>, len |-> 50000]

Bodies ==
    {BodyValid, BodyNested, BodyEmptyObject, BodyNoMethod, BodyMalformed,
     BodyTooLarge, BodyTooLargeMalformed}

HttpMethods == {"POST", "GET", "PUT", "PATCH", "DELETE"}

\* The requests a client can send to /optimize.
HttpRequests ==
    [method : {"POST"}, body : Bodies]
        \cup [method : HttpMethods \ {"POST"}, body : {BodyValid, BodyEmptyObject}]

NoRequest == [method |-> "", body |-> BodyEmptyObject]

(* ------------------------- request decoding ---------------------------- *)

\* enum OptimizeMethod, #[serde(rename_all = "camelCase")]
OptimizeMethod == {"guillotine", "nested"}

\* The fields of OptimizerInput that are not Option<_>.
RequiredKeys == {"method", "cutWidth", "stockPieces", "cutPieces"}

NoInput == [method |-> "", random_seed |-> <<>>, cut_pieces |-> <<>>]

\* Variant: method has a serde default of guillotine.
OptimizerInputDefaultMethod(body) ==
    IF ~body.syntax THEN [ok |-> FALSE, value |-> NoInput]
    ELSE IF ~((RequiredKeys \ {"method"}) \subseteq body.keys)
    THEN [ok |-> FALSE, value |-> NoInput]
    ELSE IF "method" \in body.keys /\ body.method \notin OptimizeMethod
    THEN [ok |-> FALSE, value |-> NoInput]
    ELSE [ok |-> TRUE,
          value |-> [method |-> IF "method" \in body.keys
                                THEN body.method ELSE "guillotine",
                     random_seed |-> IF "randomSeed" \in body.keys
                                     THEN <<body.randomSeed>> ELSE <<>>,
                     cut_pieces |-> body.cutPieces]]

\* Variant: #[serde(default)] on the struct, no field is required.
OptimizerInputNoRequired(body) ==
    IF ~body.syntax THEN [ok |-> FALSE, value |-> NoInput]
    ELSE [ok |-> TRUE,
          value |-> [method |-> IF body.method \in OptimizeMethod
                                THEN body.method ELSE "guillotine",
                     random_seed |-> IF "randomSeed" \in body.keys
                                     THEN <<body.randomSeed>> ELSE <<>>,
                     cut_pieces |-> body.cutPieces]]

\* serde's Deserialize for OptimizerInput. An Option<u64> is a sequence of
\* length 0 (None) or 1 (Some).
OptimizerInput(body) ==
    IF ~body.syntax THEN [ok |-> FALSE, value |-> NoInput]
    ELSE IF ~(RequiredKeys \subseteq body.keys) THEN [ok |-> FALSE, value |-> NoInput]
    ELSE IF body.method \notin OptimizeMethod THEN [ok |-> FALSE, value |-> NoInput]
    ELSE [ok |-> TRUE,
          value |-> [method |-> body.method,
                     random_seed |-> IF "randomSeed" \in body.keys
                                     THEN <<body.randomSeed>> ELSE <<>>,
                     cut_pieces |-> body.cutPieces]]

\* impl From<OptimizerInput> for Optimizer
Optimizer(in) ==
    [random_seed |-> IF Len(in.random_seed) = 0 THEN 1 ELSE in.random_seed[1],
     cut_pieces |-> in.cut_pieces]

(* --------------------------- the engine -------------------------------- *)

NoPiece == [externalId |-> 0, width |-> 0, length |-> 0]
NoSolution == [entry |-> "", seed |-> 0, placed |-> <<>>]
NoResult == [kind |-> "None", solution |-> NoSolution, piece |-> NoPiece, job |-> 0]

\* What optimizer.optimize_guillotine / optimize_nested can return for the
\* job of request r: a solution, or NoFitForCutPiece(p) for a cut piece p of
\* the input. "job" records which job computed the result.
EngineResults(r, method, optimizer) ==
    {[kind |-> "Ok",
      solution |-> [entry |-> method, seed |-> optimizer.random_seed,
                    placed |-> optimizer.cut_pieces],
      piece |-> NoPiece, job |-> r]}
    \cup {[kind |-> "NoFit", solution |-> NoSolution,
           piece |-> optimizer.cut_pieces[i], job |-> r] :
              i \in 1..Len(optimizer.cut_pieces)}

(* --------------------------- responses --------------------------------- *)

NoResponse == [status |-> 0, body |-> [none |-> TRUE], from |-> 0]

\* Variant: an error body that leaves the data out.
ErrorWithoutData(status_code, message, data) ==
    [status |-> status_code, body |-> [message |-> message, data |-> NoPiece]]

\* server.rs: fn error
error(status_code, message, data) ==
    [status |-> status_code, body |-> [message |-> message, data |-> data]]

\* main.rs: fn error_reply, ApiError::new
error_reply(message, data, status_code) ==
    [status |-> status_code,
     body |-> [error |-> [message |-> message, data |-> data]]]

\* Display of the tower errors that reach handle_error.
ErrDisplay(err) ==
    IF err = "Elapsed" THEN "request timed out" ELSE "service overloaded"

\* Variant: a handle_error that knows no error type.
HandleErrorAlways500(err) ==
    [status |-> 500,
     body |-> [text |-> <<"Unhandled internal error: ", ErrDisplay(err)>>]]

\* server.rs: async fn handle_error
handle_error(err) ==
    IF err = "Elapsed"
    THEN [status |-> 408, body |-> [text |-> <<"Request took too long">>]]
    ELSE [status |-> 500,
          body |-> [text |-> <<"Unhandled internal error: ", ErrDisplay(err)>>]]

\* A response as the client sees it; "from" is the worker job whose result
\* the body carries (0: none).
Reply(r0, from) == [status |-> r0.status, body |-> r0.body, from |-> from]

(* ------------------------ the middleware stack ------------------------- *)

\* Variant: a limit that never refuses a permit.
ConcurrencyLimitAlwaysReady(available) == TRUE

\* .concurrency_limit(opt.max_requests): poll_ready is Ready when a permit
\* of the semaphore could be acquired.
ConcurrencyLimitPollReady(available) == available > 0

\* Variant: no load shedding, the limit's Pending reaches the caller.
LoadShedPassThrough(inner_ready) == IF inner_ready THEN "Ready" ELSE "Pending"

\* .load_shed(): poll_ready never returns Pending; it remembers whether the
\* inner service was ready.
LoadShedPollReady(inner_ready) == "Ready"

\* .load_shed(): call goes to the inner service when it was ready and fails
\* with the Overloaded error when it was not.
LoadShedCall(is_ready) == IF is_ready THEN "Inner" ELSE "Overloaded"

\* What the stack does with a request that arrives when "available" permits
\* are free: "Inner" (call the route, holding a permit), "Overloaded", or
\* "Wait" (poll_ready Pending: the request waits for a permit).
Admission(available) ==
    LET inner_ready == ConcurrencyLimitPollReady(available)
    IN  IF LoadShedPollReady(inner_ready) = "Pending" THEN "Wait"
        ELSE LoadShedCall(inner_ready)

\* Variant: a permit that is not given back.
ReleasePermitLeaks(available) == available

\* Dropping the response future of the concurrency limit gives its permit back.
ReleasePermit(available) == available + 1

(* ------------------------------ routing -------------------------------- *)

\* Variant: a route that accepts every method.
AxumRouteAnyMethod(h) == IF ~OptimizerInput(h.body).ok THEN 400 ELSE 0

\* Variant: the body is extracted before the method is looked at.
AxumRouteJsonFirst(h) ==
    IF ~OptimizerInput(h.body).ok THEN 400
    ELSE IF h.method # "POST" THEN 405
    ELSE 0

\* Router::new().route("/optimize", post(optimize)) with the Json extractor:
\* the status of the rejection, or 0 when optimize is to run.
AxumRoute(h) ==
    IF h.method # "POST" THEN 405
    ELSE IF ~OptimizerInput(h.body).ok THEN 400
    ELSE 0

\* Variant: the body is parsed before its length is checked.
WarpFilterJsonFirst(h, limit) ==
    IF h.method # "POST" THEN 405
    ELSE IF ~OptimizerInput(h.body).ok THEN 400
    ELSE IF h.body.len > limit THEN 413
    ELSE 0

\* optimize_filter: path, method::post, content_length_limit, body::json:
\* the status of the rejection, or 0 when optimize is to run.
WarpFilter(h, limit) ==
    IF h.method # "POST" THEN 405
    ELSE IF h.body.len > limit THEN 413
    ELSE IF ~OptimizerInput(h.body).ok THEN 400
    ELSE 0

Rejection(status) == [status |-> status, body |-> [rejected |-> TRUE]]

(* ------------------------- the one-shot channel ------------------------ *)

NoChannel == [tx |-> "none", rx |-> "none", val |-> NoResult, late |-> FALSE]

\* oneshot::channel()
NewChannel == [tx |-> "live", rx |-> "live", val |-> NoResult, late |-> FALSE]

\* tx.send(result): the value is stored when the receiver is alive, else the
\* send returns Err. "late" notes that the timer had already expired.
OneshotSend(ch, result, expired) ==
    IF ch.rx = "live"
    THEN [ch EXCEPT !.tx = "sent", !.val = result, !.late = expired]
    ELSE [ch EXCEPT !.tx = "refused"]

\* Variant: a receiver that is not woken when the sender is dropped.
OneshotPollIgnoresDrop(ch) == IF ch.tx = "sent" THEN "Value" ELSE "Pending"

\* What rx.await finds: "Value", "Closed" (sender dropped without a value)
\* or "Pending".
OneshotPoll(ch) ==
    IF ch.tx = "sent" THEN "Value"
    ELSE IF ch.tx = "dropped" THEN "Closed"
    ELSE "Pending"

(* --------------------------- the handlers ------------------------------ *)

\* Display of tokio's oneshot RecvError.
RecvErrorDisplay == "channel closed"

\* server.rs optimize, after rx.await: the response for what was received.
AxumOptimizeReply(recv, result) ==
    IF recv = "Closed"
    THEN Reply(error(500, "Couldn't receive result from channel", RecvErrorDisplay), 0)
    ELSE IF result.kind = "NoFit"
    THEN Reply(error(422, "Cut piece doesn't fit in any stock pieces", result.piece),
               result.job)
    ELSE Reply([status |-> 200, body |-> [solution |-> result.solution]], result.job)

\* main.rs optimize, after rx.await.
WarpOptimizeReply(recv, result) ==
    IF recv = "Closed"
    THEN Reply(error_reply("Couldn't receive result from channel", RecvErrorDisplay, 500), 0)
    ELSE IF result.kind = "NoFit"
    THEN Reply(error_reply("The following cut piece doesn't fit any stock pieces",
                           result.piece, 422), result.job)
    ELSE Reply([status |-> 200, body |-> [solution |-> result.solution]], result.job)

\* Variant: the timer is looked at before the handler's future.
TimeoutPollTimerFirst(recv, timer_state) ==
    IF timer_state = "elapsed" THEN "Elapsed"
    ELSE IF recv # "Pending" THEN "Reply"
    ELSE "Pending"

\* Variant: no timeout layer, the timer is never looked at.
TimeoutPollWithoutTimer(recv, timer_state) ==
    IF recv # "Pending" THEN "Reply" ELSE "Pending"

\* The timeout layer's future: the handler's future is polled first, the
\* timer after it. "Reply", "Elapsed" or "Pending".
TimeoutPoll(recv, timer_state) ==
    IF recv # "Pending" THEN "Reply"
    ELSE IF timer_state = "elapsed" THEN "Elapsed"
    ELSE "Pending"

(* ------------------------------- state --------------------------------- *)

VARIABLES
    rev,      \* the revision that runs: "axum" or "warp"
    phase,    \* per request: "new", "awaiting" (at rx.await), or how it ended:
              \* "shed", "rejected", "replied", "failed", "timedout"
    input,    \* per request: the HTTP request received
    resp,     \* per request: the response sent
    permits,  \* free permits of the concurrency-limit semaphore
    chan,     \* per request: its one-shot channel
    job,      \* per request: its worker job, [st, payload]
    timer     \* per request: the timeout layer's sleep: "off", "armed", "elapsed"

vars == <<rev, phase, input, resp, permits, chan, job, timer>>

NoJob == [st |-> "none", payload |-> NoInput]

Init ==
    /\ rev \in {"axum", "warp"}
    /\ phase = [r \in Requests |-> "new"]
    /\ input = [r \in Requests |-> NoRequest]
    /\ resp = [r \in Requests |-> NoResponse]
    /\ permits = max_requests
    /\ chan = [r \in Requests |-> NoChannel]
    /\ job = [r \in Requests |-> NoJob]
    /\ timer = [r \in Requests |-> "off"]

\* Requests are numbered in the order they arrive.
NextToArrive(r) == phase[r] = "new" /\ \A q \in 1..(r - 1) : phase[q] # "new"

\* Variant: optimize calls the engine itself, before it awaits.
SpawnInline(r, h) ==
    /\ chan' = [chan EXCEPT ![r] =
                   [tx |-> "sent", rx |-> "live", late |-> FALSE,
                    val |-> CHOOSE res \in EngineResults(r, h.body.method,
                                   Optimizer(OptimizerInput(h.body).value)) :
                               res.kind = "Ok"]]
    /\ job' = [job EXCEPT ![r] = [st |-> "finished",
                                  payload |-> OptimizerInput(h.body).value]]

\* Variant: the closure computes from an input kept outside the request.
SpawnWithSharedInput(r, h) ==
    /\ chan' = [chan EXCEPT ![r] = NewChannel]
    /\ job' = [job EXCEPT ![r] = [st |-> "queued",
                                  payload |-> OptimizerInput(BodyValid).value]]

\* optimize up to rx.await: the channel is made and the job is spawned.
Spawn(r, h) ==
    /\ chan' = [chan EXCEPT ![r] = NewChannel]
    /\ job' = [job EXCEPT ![r] = [st |-> "queued",
                                  payload |-> OptimizerInput(h.body).value]]

\* Variant: the stack calls the route before it looks at the permits, and a
\* request it then sheds has its job spawned.
AxumRequestSpawnsBeforeShed(r, h) ==
    /\ rev = "axum"
    /\ NextToArrive(r)
    /\ input' = [input EXCEPT ![r] = h]
    /\ LET adm == Admission(permits)
           route == AxumRoute(h)
       IN  IF route # 0 /\ adm # "Overloaded"
           THEN /\ phase' = [phase EXCEPT ![r] = "rejected"]
                /\ resp' = [resp EXCEPT ![r] = Reply(Rejection(route), 0)]
                /\ UNCHANGED <<permits, chan, job, timer>>
           ELSE IF adm = "Overloaded"
           THEN /\ phase' = [phase EXCEPT ![r] = "shed"]
                /\ resp' = [resp EXCEPT ![r] = Reply(handle_error("Overloaded"), 0)]
                /\ Spawn(r, h)
                /\ UNCHANGED <<permits, timer>>
           ELSE /\ phase' = [phase EXCEPT ![r] = "awaiting"]
                /\ permits' = permits - 1
                /\ timer' = [timer EXCEPT ![r] = "armed"]
                /\ Spawn(r, h)
                /\ UNCHANGED resp
    /\ UNCHANGED rev

\* A request reaches the axum server: the stack admits or sheds it, the route
\* rejects it or runs optimize up to its await.
AxumRequest(r, h) ==
    /\ rev = "axum"
    /\ NextToArrive(r)
    /\ input' = [input EXCEPT ![r] = h]
    /\ LET adm == Admission(permits)
           route == AxumRoute(h)
       IN  IF adm = "Wait"
           THEN /\ phase' = [phase EXCEPT ![r] = "waiting"]
                /\ UNCHANGED <<resp, permits, chan, job, timer>>
           ELSE IF adm = "Overloaded"
           THEN /\ phase' = [phase EXCEPT ![r] = "shed"]
                /\ resp' = [resp EXCEPT ![r] = Reply(handle_error("Overloaded"), 0)]
                /\ UNCHANGED <<permits, chan, job, timer>>
           ELSE IF route # 0
           THEN /\ phase' = [phase EXCEPT ![r] = "rejected"]
                /\ resp' = [resp EXCEPT ![r] = Reply(Rejection(route), 0)]
                /\ UNCHANGED <<permits, chan, job, timer>>
           ELSE /\ phase' = [phase EXCEPT ![r] = "awaiting"]
                /\ permits' = permits - 1
                /\ timer' = [timer EXCEPT ![r] = "armed"]
                /\ Spawn(r, h)
                /\ UNCHANGED resp
    /\ UNCHANGED rev

\* A request reaches the warp server.
WarpRequest(r, h) ==
    /\ rev = "warp"
    /\ NextToArrive(r)
    /\ input' = [input EXCEPT ![r] = h]
    /\ LET route == WarpFilter(h, max_content_length)
       IN  IF route # 0
           THEN /\ phase' = [phase EXCEPT ![r] = "rejected"]
                /\ resp' = [resp EXCEPT ![r] = Reply(Rejection(route), 0)]
                /\ UNCHANGED <<chan, job>>
           ELSE /\ phase' = [phase EXCEPT ![r] = "awaiting"]
                /\ Spawn(r, h)
                /\ UNCHANGED resp
    /\ UNCHANGED <<rev, permits, timer>>

\* The deadline of a request's timeout passes: its sleep becomes ready.
TimerFire(r) ==
    /\ rev = "axum"
    /\ phase[r] = "awaiting"
    /\ timer[r] = "armed"
    /\ timer' = [timer EXCEPT ![r] = "elapsed"]
    /\ UNCHANGED <<rev, phase, input, resp, permits, chan, job>>

\* The task of an axum request is polled with something to see: the result,
\* the closed channel, or the elapsed timer. The response is sent, the
\* receiver and the permit go with the future.
AxumPoll(r) ==
    /\ rev = "axum"
    /\ phase[r] = "awaiting"
    /\ LET recv == OneshotPoll(chan[r])
           out == TimeoutPoll(recv, timer[r])
       IN  /\ out # "Pending"
           /\ resp' = [resp EXCEPT ![r] =
                          IF out = "Elapsed" THEN Reply(handle_error("Elapsed"), 0)
                          ELSE AxumOptimizeReply(recv, chan[r].val)]
           /\ chan' = [chan EXCEPT ![r].rx =
                          IF out = "Elapsed" THEN "closed"
                          ELSE IF recv = "Value" THEN "received" ELSE "failed"]
           /\ phase' = [phase EXCEPT ![r] =
                          IF out = "Elapsed" THEN "timedout"
                          ELSE IF recv = "Value" THEN "replied" ELSE "failed"]
    /\ permits' = ReleasePermit(permits)
    /\ timer' = [timer EXCEPT ![r] = "off"]
    /\ UNCHANGED <<rev, input, job>>

\* The task of a warp request is polled with something to see.
WarpPoll(r) ==
    /\ rev = "warp"
    /\ phase[r] = "awaiting"
    /\ LET recv == OneshotPoll(chan[r])
       IN  /\ recv # "Pending"
           /\ resp' = [resp EXCEPT ![r] = WarpOptimizeReply(recv, chan[r].val)]
           /\ chan' = [chan EXCEPT ![r].rx =
                          IF recv = "Value" THEN "received" ELSE "failed"]
           /\ phase' = [phase EXCEPT ![r] =
                          IF recv = "Value" THEN "replied" ELSE "failed"]
    /\ UNCHANGED <<rev, input, permits, job, timer>>

Running == {r \in Requests : job[r].st = "running"}

\* A free thread of the pool takes a spawned job and enters the engine.
WorkerStart(r) ==
    /\ job[r].st = "queued"
    /\ Cardinality(Running) < PoolSize
    /\ job' = [job EXCEPT ![r].st = "running"]
    /\ UNCHANGED <<rev, phase, input, resp, permits, chan, timer>>

\* Variant: the closure unwraps the result of tx.send.
AfterSendUnwrap(ch) == IF ch.tx = "refused" THEN "send_panicked" ELSE "finished"

\* How the closure ends after tx.send returned: it logs when the send
\* failed, and returns either way.
AfterSend(ch) == IF ch.tx = "refused" THEN "finished_logged" ELSE "finished"

\* The engine returns and the closure sends the result.
WorkerComplete(r) ==
    /\ job[r].st = "running"
    /\ \E result \in EngineResults(r, job[r].payload.method, Optimizer(job[r].payload)) :
          LET ch == OneshotSend(chan[r], result, timer[r] = "elapsed")
          IN  /\ chan' = [chan EXCEPT ![r] = ch]
              /\ job' = [job EXCEPT ![r].st = AfterSend(ch)]
    /\ UNCHANGED <<rev, phase, input, resp, permits, timer>>

\* The engine panics: the closure unwinds and drops tx without sending.
WorkerPanic(r) ==
    /\ job[r].st = "running"
    /\ chan' = [chan EXCEPT ![r].tx = "dropped"]
    /\ job' = [job EXCEPT ![r].st = "panicked"]
    /\ UNCHANGED <<rev, phase, input, resp, permits, timer>>

Next ==
    \/ \E r \in Requests, h \in HttpRequests : AxumRequest(r, h)
    \/ \E r \in Requests, h \in HttpRequests : WarpRequest(r, h)
    \/ \E r \in Requests : TimerFire(r)
    \/ \E r \in Requests : AxumPoll(r)
    \/ \E r \in Requests : WarpPoll(r)
    \/ \E r \in Requests : WorkerStart(r)
    \/ \E r \in Requests : WorkerComplete(r)
    \/ \E r \in Requests : WorkerPanic(r)

Spec == Init /\ [][Next]_vars

\* The timers of tokio fire and a woken task is polled; nothing is assumed
\* about when, or whether, the worker pool runs a job.
Fairness ==
    \A r \in Requests : WF_vars(TimerFire(r)) /\ WF_vars(AxumPoll(r))

\* The axum server alone, with one request of each kind its stack and route
\* tell apart: dispatched, rejected for its body, rejected for its method.
AxumInit == Init /\ rev = "axum"

AxumRequests ==
    {[method |-> "POST", body |-> BodyValid],
     [method |-> "POST", body |-> BodyEmptyObject],
     [method |-> "GET", body |-> BodyValid]}

AxumNext ==
    \/ \E r \in Requests, h \in AxumRequests : AxumRequest(r, h)
    \/ \E r \in Requests : TimerFire(r)
    \/ \E r \in Requests : AxumPoll(r)
    \/ \E r \in Requests : WorkerStart(r)
    \/ \E r \in Requests : WorkerComplete(r)
    \/ \E r \in Requests : WorkerPanic(r)

FairSpec == AxumInit /\ [][AxumNext]_vars /\ Fairness

(* ============================== claims ================================= *)

InFlight == {r \in Requests : phase[r] = "awaiting"}

Unfinished == {r \in Requests : job[r].st \in {"queued", "running"}}

\* The reply of a request that load shedding rejected.
ShedReply == Reply(handle_error("Overloaded"), 0)

\* C1: behind the axum stack, the requests admitted past the concurrency
\* limit that have no response yet are never more than max_requests.
C1_InFlightAtMostMaxRequests ==
    rev = "axum" => Cardinality(InFlight) <= max_requests

\* The cap is reached and a further request has come and gone.
C1_Witness ==
    /\ rev = "axum"
    /\ Cardinality(InFlight) = max_requests
    /\ \E r \in Requests : phase[r] = "shed"

\* C2: a request that arrives while max_requests requests are in flight is
\* rejected in the step of its arrival: it never waits for a permit, no job
\* is spawned for it, and it has its response with every in-flight request
\* still in flight.
C2_ShedImmediately ==
    [][\A r \in Requests :
          (/\ rev = "axum"
           /\ phase[r] = "new"
           /\ phase'[r] # "new"
           /\ Cardinality(InFlight) >= max_requests)
          => /\ phase'[r] = "shed"
             /\ resp'[r] # NoResponse
             /\ job'[r] = NoJob
             /\ \A q \in InFlight : phase'[q] = "awaiting"]_vars

\* A shed request has its response while the request holding the permit is
\* still waiting for its job.
C2_Witness ==
    /\ rev = "axum"
    /\ \E r, q \in Requests :
          /\ phase[q] = "awaiting"
          /\ job[q].st = "queued"
          /\ phase[r] = "shed"
          /\ resp[r] = ShedReply

\* C3 (as stated): the response of a request rejected by load shedding,
\* after handle_error, has status 503.
C3_ShedIs503 ==
    \A r \in Requests : phase[r] = "shed" => resp[r].status = 503

\* C4 (as stated): if the timer expired before the worker's result arrived
\* on the channel, the client has 408 and no response carries that result.
C4_ExpiryBeforeArrivalIs408 ==
    \A r \in Requests :
        (phase[r] \in {"timedout", "replied"}
            /\ (phase[r] = "timedout" \/ chan[r].late))
        => /\ resp[r].status = 408
           /\ \A q \in Requests : resp[q].from # r

\* C4 (amended): if the task of the request is polled with the timer expired
\* and the result still not on the channel, the client has 408, the send of
\* the result is refused, and no response carries it.
C4_TimeoutDiscardsResult ==
    \A r \in Requests :
        phase[r] = "timedout"
        => /\ resp[r].status = 408
           /\ chan[r].tx # "sent"
           /\ chan[r].val = NoResult
           /\ \A q \in Requests : resp[q].from # r

\* A request timed out with 408 and its job produced its result afterwards.
C4_Witness ==
    \E r \in Requests :
        /\ phase[r] = "timedout"
        /\ resp[r].status = 408
        /\ job[r].st = "finished_logged"

\* C5: a timeout leaves the job of the request alone, and a job that sends
\* after its receiver was dropped gets the refusal, logs it and ends in the
\* same step, its thread free again.
C5_SendOnDroppedReceiver ==
    [][\A r \in Requests :
          /\ (phase[r] = "awaiting" /\ phase'[r] = "timedout") => job'[r] = job[r]
          /\ (/\ job[r].st = "running"
              /\ chan[r].rx = "closed"
              /\ job'[r] # job[r]
              /\ chan'[r].tx # "dropped")
             => /\ chan'[r].tx = "refused"
                /\ job'[r].st = "finished_logged"
                /\ Cardinality({q \in Requests : job'[q].st = "running"})
                      < Cardinality(Running)]_vars

\* A job's send was refused, the job has ended, and the pool runs the job
\* of another request.
C5_Witness ==
    \E r, q \in Requests :
        /\ chan[r].rx = "closed"
        /\ chan[r].tx = "refused"
        /\ job[r].st = "finished_logged"
        /\ job[q].st = "running"

\* message and data of an error response, in the envelope of the revision.
ErrorOf(r) == IF rev = "axum" THEN resp[r].body ELSE resp[r].body.error

C7_NoFitIs422WithPiece ==
    \A r \in Requests :
        (phase[r] = "replied" /\ chan[r].val.kind = "NoFit")
        => /\ resp[r].status = 422
           /\ ErrorOf(r).data = chan[r].val.piece
           /\ \E i \in 1..Len(input[r].body.cutPieces) :
                 input[r].body.cutPieces[i] = ErrorOf(r).data

\* The engine found no fit for the second cut piece of a request and the
\* request was answered.
C7_Witness ==
    \E r \in Requests :
        /\ phase[r] = "replied"
        /\ chan[r].val.kind = "NoFit"
        /\ chan[r].val.piece = CutPiece2
        /\ resp[r].status = 422

\* C8: behind the axum stack every permit is either free or held by a request
\* in flight, whichever way the others ended; with no request in flight all
\* max_requests permits are free and the next request is admitted.
C8_PermitsReleased ==
    rev = "axum"
    => /\ permits + Cardinality(InFlight) = max_requests
       /\ InFlight = {} => (permits = max_requests /\ Admission(permits) = "Inner")

\* Every request has ended, one by timeout and one with a result received.
C8_Witness ==
    /\ rev = "axum"
    /\ InFlight = {}
    /\ \E r, q \in Requests : phase[r] = "timedout" /\ phase[q] \in {"replied", "failed"}
    /\ permits = max_requests

\* C9 (as stated): the jobs spawned and not finished are never more than
\* max_requests.
C9_UnfinishedJobsAtMostMaxRequests ==
    rev = "axum" => Cardinality(Unfinished) <= max_requests

\* C9 (amended): the unfinished jobs of requests that still hold their permit
\* are never more than max_requests; every other unfinished job belongs to
\* a request that timed out.
C9_UnfinishedJobsOfInFlightRequests ==
    rev = "axum"
    => /\ Cardinality(Unfinished \cap InFlight) <= max_requests
       /\ \A r \in Unfinished \ InFlight : phase[r] = "timedout"

\* More jobs are unfinished than max_requests, one of a timed-out request.
C9_Witness ==
    /\ rev = "axum"
    /\ Cardinality(Unfinished) > max_requests
    /\ \E r \in Unfinished : phase[r] = "timedout"

\* C10: a job exists only for a POST whose body decoded into OptimizerInput
\* (and, in the warp revision, was within the content length limit), and
\* its payload is the decoded body.
C10_JobsOnlyForDecodedPosts ==
    \A r \in Requests :
        job[r] # NoJob
        => /\ input[r].method = "POST"
           /\ OptimizerInput(input[r].body).ok
           /\ job[r].payload = OptimizerInput(input[r].body).value
           /\ rev = "warp" => input[r].body.len <= max_content_length

\* One request was rejected as a client error, without a job, while another
\* has its job.
C10_Witness ==
    \E r, q \in Requests :
        /\ phase[r] = "rejected"
        /\ resp[r].status \in {400, 405, 413}
        /\ job[r] = NoJob
        /\ job[q] # NoJob

Arrived(r) == phase[r] # "new"

\* C11: in the warp revision a POST whose body is longer than
\* max_content_length is answered 413 without a job, whether or not the
\* body is valid JSON.
C11_TooLargeIs413 ==
    \A r \in Requests :
        (/\ rev = "warp"
         /\ Arrived(r)
         /\ input[r].method = "POST"
         /\ input[r].body.len > max_content_length)
        => /\ phase[r] = "rejected"
           /\ resp[r].status = 413
           /\ job[r] = NoJob

\* Two oversized bodies got 413, one that is valid JSON and one that is not.
C11_Witness ==
    /\ rev = "warp"
    /\ \E r, q \in Requests :
          /\ input[r] = [method |-> "POST", body |-> BodyTooLarge]
          /\ input[q] = [method |-> "POST", body |-> BodyTooLargeMalformed]
          /\ resp[r].status = 413
          /\ resp[q].status = 413

\* C12 (as stated): every request with a method other than POST is answered
\* 405.
C12_NonPostIs405 ==
    \A r \in Requests :
        (Arrived(r) /\ input[r].method # "POST") => resp[r].status = 405

\* C12 (amended): a request with a method other than POST gets no job and is
\* answered 405 whatever its body, unless the axum stack shed it.
C12_NonPostIs405UnlessShed ==
    \A r \in Requests :
        (Arrived(r) /\ input[r].method # "POST")
        => /\ job[r] = NoJob
           /\ IF phase[r] = "shed" THEN rev = "axum"
              ELSE phase[r] = "rejected" /\ resp[r].status = 405

\* Two requests with other methods got 405, one with a valid body and one
\* with the body {}.
C12_Witness ==
    \E r, q \in Requests :
        /\ input[r].method = "DELETE" /\ input[r].body = BodyValid
        /\ input[q].method = "PATCH" /\ input[q].body = BodyEmptyObject
        /\ resp[r].status = 405
        /\ resp[q].status = 405

\* A POST whose body is JSON of accepted length that lacks a required field.
LacksRequiredField(r) ==
    /\ Arrived(r)
    /\ input[r].method = "POST"
    /\ input[r].body.syntax
    /\ ~(RequiredKeys \subseteq input[r].body.keys)
    /\ rev = "warp" => input[r].body.len <= max_content_length

\* C13 (as stated): a POST whose JSON body lacks a required field is
\* answered 400.
C13_MissingFieldIs400 ==
    \A r \in Requests : LacksRequiredField(r) => resp[r].status = 400

\* C13 (amended): a POST whose JSON body lacks a required field gets no job
\* and is answered 400, unless the axum stack shed it.
C13_MissingFieldIs400UnlessShed ==
    \A r \in Requests :
        LacksRequiredField(r)
        => /\ job[r] = NoJob
           /\ IF phase[r] = "shed" THEN rev = "axum"
              ELSE phase[r] = "rejected" /\ resp[r].status = 400

\* The body {} got 400 from the axum server.
C13_Witness ==
    /\ rev = "axum"
    /\ \E r \in Requests :
          /\ input[r] = [method |-> "POST", body |-> BodyEmptyObject]
          /\ resp[r].status = 400

\* A POST that the stack admitted and whose body is JSON of accepted length
\* with every required field but method.
OmitsOnlyMethod(r) ==
    /\ Arrived(r)
    /\ phase[r] # "shed"
    /\ input[r].method = "POST"
    /\ input[r].body.syntax
    /\ "method" \notin input[r].body.keys
    /\ (RequiredKeys \ {"method"}) \subseteq input[r].body.keys
    /\ rev = "warp" => input[r].body.len <= max_content_length

\* C14 (as stated): a body that omits method and is otherwise valid is
\* dispatched, with the guillotine method.
C14_MethodDefaultsToGuillotine ==
    \A r \in Requests :
        OmitsOnlyMethod(r)
        => /\ job[r] # NoJob
           /\ job[r].payload.method = "guillotine"

\* C14 (amended): method is required. A body that omits it is rejected with
\* 400 and gets no job; a job runs the entry point that the method field of
\* its request names.
C14_MethodIsRequired ==
    \A r \in Requests :
        /\ OmitsOnlyMethod(r)
              => /\ phase[r] = "rejected"
                 /\ resp[r].status = 400
                 /\ job[r] = NoJob
        /\ chan[r].val.kind = "Ok"
              => /\ "method" \in input[r].body.keys
                 /\ chan[r].val.solution.entry = input[r].body.method

\* A body without method was rejected and a body with the method nested
\* was solved by the nested entry point.
C14_Witness ==
    \E r, q \in Requests :
        /\ input[r] = [method |-> "POST", body |-> BodyNoMethod]
        /\ resp[r].status = 400
        /\ chan[q].val.kind = "Ok"
        /\ chan[q].val.solution.entry = "nested"

\* C15 (as stated): the body of a no-fit or channel-failure response has the
\* fields message and data under a top-level key error.
C15_ErrorEnvelopeNested ==
    \A r \in Requests :
        (phase[r] = "failed" \/ (phase[r] = "replied" /\ chan[r].val.kind = "NoFit"))
        => /\ DOMAIN resp[r].body = {"error"}
           /\ DOMAIN resp[r].body.error = {"message", "data"}

\* C16: with fair timers and task polls, and whatever the worker pool does,
\* every request that the axum stack admitted to optimize is answered.
C16_AdmittedIsAnswered ==
    \A r \in Requests :
        (rev = "axum" /\ phase[r] = "awaiting")
            ~> (phase[r] \in {"replied", "failed", "timedout"}
                   /\ resp[r] # NoResponse)

\* A request timed out while its job was never taken by a pool thread.
C16_Witness ==
    \E r \in Requests :
        /\ phase[r] = "timedout"
        /\ job[r].st = "queued"
        /\ resp[r] # NoResponse

\* What the engine can compute from the body that request r sent.
ResultsFor(r) ==
    EngineResults(r, input[r].body.method, Optimizer(OptimizerInput(input[r].body).value))

\* C17: a channel only ever holds a result computed by the job of its own
\* request, and the body of every 200 or 422 response is a result that the
\* engine computes from the input of that same request.
C17_ResponseFromOwnJob ==
    \A r \in Requests :
        /\ chan[r].val.job \in {0, r}
        /\ phase[r] = "replied"
              => /\ resp[r].from = r
                 /\ chan[r].val \in ResultsFor(r)
                 /\ resp[r].status \in {200, 422}
                 /\ resp[r].status = 200
                       => resp[r].body = [solution |-> chan[r].val.solution]
                 /\ resp[r].status = 422 => ErrorOf(r).data = chan[r].val.piece

\* Two requests with different inputs were both answered from results, the
\* later request first.
C17_Witness ==
    \E r, q \in Requests :
        /\ r < q
        /\ input[r].body = BodyValid
        /\ input[q].body = BodyNested
        /\ phase[r] = "awaiting"
        /\ chan[r].tx = "sent"
        /\ phase[q] = "replied"
        /\ resp[q].status = 200
        /\ resp[q].body.solution.entry = "nested"

\* C18: optimize only spawns: the step that takes a request to its await
\* leaves its job queued and its channel empty; a result appears on a
\* channel only in a step of a running pool job, which is no step of a
\* request's task; and while jobs are queued or running the next request
\* can be taken and answered.
C18_EngineOnlyInPool ==
    /\ [](\A r \in Requests :
            (NextToArrive(r) /\ Unfinished # {})
            => ENABLED (\E h \in HttpRequests : AxumRequest(r, h) \/ WarpRequest(r, h)))
    /\ [][\A r \in Requests :
            /\ (phase[r] = "new" /\ phase'[r] = "awaiting")
                  => /\ job'[r].st = "queued"
                     /\ chan'[r] = NewChannel
            /\ (chan[r].val = NoResult /\ chan'[r].val # NoResult)
                  => /\ job[r].st = "running"
                     /\ phase' = phase
                     /\ resp' = resp]_vars

\* While the pool runs the job of one request, a later request has been
\* answered without a job.
C18_Witness ==
    \E r, q \in Requests :
        /\ r < q
        /\ job[r].st = "running"
        /\ phase[r] = "awaiting"
        /\ phase[q] \in {"rejected", "shed"}
        /\ resp[q].status \in {400, 405, 500}

\* The request has its response.
Answered(r) == resp[r] # NoResponse

\* C19: behind the axum stack a request that awaits its job has no response
\* yet and a request that left its await has one. After a timeout the
\* response is the 408 and the job's result is not taken by the channel;
\* after a reply the response is the 200 or 422 of the job's result and the
\* timer is gone. A response once sent, and the way the request ended, are
\* changed by no later step, and a request whose timer expired or whose
\* result arrived gets its response.
C19_ExactlyOneResponse ==
    /\ [](\A r \in Requests :
            /\ phase[r] = "awaiting" => ~Answered(r)
            /\ phase[r] \in {"timedout", "replied"} => Answered(r)
            /\ phase[r] = "timedout"
                  => /\ resp[r] = Reply(handle_error("Elapsed"), 0)
                     /\ resp[r].status = 408
                     /\ chan[r].tx # "sent"
                     /\ chan[r].val = NoResult
            /\ phase[r] = "replied"
                  => /\ resp[r] = AxumOptimizeReply("Value", chan[r].val)
                     /\ resp[r].status \in {200, 422}
                     /\ chan[r].tx = "sent"
                     /\ timer[r] = "off")
    /\ [][\A r \in Requests :
            Answered(r) => (resp'[r] = resp[r] /\ phase'[r] = phase[r])]_vars
    /\ \A r \in Requests :
          (phase[r] = "awaiting" /\ (timer[r] = "elapsed" \/ chan[r].tx = "sent"))
          ~> Answered(r)

\* Both races have been run: one request was answered with the result that
\* arrived after its timer had expired, another with 408 while its job was
\* running, and that job then had its send refused.
C19_Witness ==
    \E r, q \in Requests :
        /\ phase[r] = "replied"
        /\ chan[r].late
        /\ resp[r].status = 200
        /\ phase[q] = "timedout"
        /\ resp[q].status = 408
        /\ chan[q].tx = "refused"

\* C20: the step in which load shedding rejects a request changes neither
\* the free permits nor the set of requests in flight, spawns no job and
\* makes no channel or timer, and leaves the phase, the response, the
\* channel, the job and the timer of every other request as they were, so
\* that each of them can end as it could before.
C20_ShedLeavesAdmissionUnchanged ==
    [][\A r \in Requests :
          (phase[r] = "new" /\ phase'[r] = "shed")
          => /\ permits' = permits
             /\ {q \in Requests : phase'[q] = "awaiting"} = InFlight
             /\ Cardinality({q \in Requests : phase'[q] = "awaiting"})
                   = Cardinality(InFlight)
             /\ job' = job
             /\ job'[r] = NoJob
             /\ chan' = chan
             /\ timer' = timer
             /\ \A q \in Requests \ {r} :
                   /\ phase'[q] = phase[q]
                   /\ resp'[q] = resp[q]]_vars

\* A request was shed without a job, and the request that was in flight
\* before it has since been answered with its own result.
C20_Witness ==
    \E r, q \in Requests :
        /\ q < r
        /\ phase[r] = "shed"
        /\ job[r] = NoJob
        /\ chan[r] = NoChannel
        /\ phase[q] = "replied"
        /\ resp[q].status = 200
        /\ resp[q].from = q
====
